---- MODULE Spec2Model ----
(***************************************************************************)
(* The TEXAI backend gateway (src/server/server.js): POST /chat behind the *)
(* per-source admission limiter, prompt composition, the process-wide      *)
(* lastOpenAICall throttle, and the 429 retry loop of callOpenAIWithRetry; *)
(* and the chat screen of the app (src/app/(main)/texai/texai.tsx) that    *)
(* posts to it.                                                            *)
(*                                                                         *)
(* Node runs the handlers on one thread: an action is the code that runs   *)
(* between two suspension points (await sleep, await axios.post).  Times   *)
(* are milliseconds, as in the source.                                     *)
(***************************************************************************)
EXTENDS Integers, Sequences, FiniteSets, TLC

VARIABLES
    apiKey,          \* OPENAI_API_KEY is configured (process.env, fixed at start)
    now,             \* Date.now()
    lastOpenAICall,  \* server.js:42
    hits,            \* chatLimiter store: requests counted per source in its window
    resetTime,       \* chatLimiter store: end of the window of each source
    admitted,        \* requests of each source passed on to the handler in its window
    reqs,            \* the /chat requests in progress, one record per request
    prevIssue,       \* instant of the upstream call issued before the latest one
    lastIssue,       \* instant of the latest upstream call issued (axios.post)
    cBody,           \* composition alone: the request body being composed
    cMessages,       \* composition alone: the composed message list
    cDone,           \* composition alone: composition has run
    uiMessages,      \* chat screen: the messages state (texai.tsx:59)
    uiInput,         \* chat screen: the text in the input field (texai.tsx:60)
    uiMode,          \* chat screen: the mode state (texai.tsx:61)
    uiTone,          \* chat screen: the tone state (texai.tsx:62)
    uiLoading,       \* chat screen: the loading state (texai.tsx:63)
    uiCall,          \* chat screen: the sendMessage call and its request to the backend
    uiPresses,       \* chat screen: how often sendMessage was called
    uiSwitches       \* chat screen: how often the mode or the tone was changed

limiterVars == <<hits, resetTime, admitted>>
composeVars == <<cBody, cMessages, cDone>>
chatVars == <<uiMessages, uiInput, uiMode, uiTone, uiLoading, uiCall, uiPresses, uiSwitches>>
vars == <<apiKey, now, lastOpenAICall, hits, resetTime, admitted, reqs, prevIssue, lastIssue,
          cBody, cMessages, cDone,
          uiMessages, uiInput, uiMode, uiTone, uiLoading, uiCall, uiPresses, uiSwitches>>

-----------------------------------------------------------------------------
(* Bounds of the model *)

\* Date.now() when the first request arrives (a real clock is far past 0)
StartTime == 10000
\* requests counted by the limiter at one time, over all sources
MaxArrivals == 62
\* longest history of a composed request
MaxHistory == 7
\* the request slots
Reqs == {1, 2}
Sources == {"ipA", "ipB"}
\* upstream answers this long after the call was issued, or not before the deadline
Latencies == {0, 500}

Never == 0 - 1

-----------------------------------------------------------------------------
(* Program constants *)

MIN_INTERVAL_MS == 2500
\* the history bound of the chat client (texai.tsx); the server has none
MAX_MEMORY == 6
maxRetries == 4
BackoffStepMs == 500
TimeoutMs == 25000
windowMs == 60 * 1000
RateMax == 60

-----------------------------------------------------------------------------
(* JavaScript values of the request body *)

Undefined == [t |-> "undefined", v |-> ""]
Null == [t |-> "null", v |-> ""]
Str(s) == [t |-> "string", v |-> s]
Num(s) == [t |-> "number", v |-> s]

\* !x is false
Truthy(x) ==
    CASE x.t = "undefined" -> FALSE
      [] x.t = "null" -> FALSE
      [] x.t = "string" -> x.v # ""
      [] x.t = "number" -> x.v # "0"
      [] OTHER -> TRUE

\* a ?? d
Nullish(x) == x.t \in {"undefined", "null"}
Coalesce(x, d) == IF Nullish(x) THEN d ELSE x

\* a default parameter value applies to undefined only
DefaultParam(x, d) == IF x.t = "undefined" THEN d ELSE x

\* a history entry; isNull: the array element is null
Turn(role, content, mode, tone) ==
    [isNull |-> FALSE, role |-> role, content |-> content, mode |-> mode, tone |-> tone]
NullTurn ==
    [isNull |-> TRUE, role |-> Undefined, content |-> Undefined, mode |-> Undefined,
     tone |-> Undefined]

\* req.body: history is [isArray, items]
Body(userInput, mode, tone, isArray, items) ==
    [userInput |-> userInput, mode |-> mode, tone |-> tone,
     history |-> [isArray |-> isArray, items |-> items]]

-----------------------------------------------------------------------------
(* buildSystemPrompt and the message list of the handler *)

BaseDirective == "You are TEXAI"
ToneDirectiveField == "Respond concisely"
ToneDirectiveTraining == "Respond with a detailed, instructional tone"
ModeDirectiveMap ==
    [informational |-> "Deliver clear regulatory guidance",
     quiz |-> "Act as a quiz engine",
     simulation |-> "Run a branching scenario"]

\* `${modeDirectiveMap[mode]}`: a key the table lacks renders as "undefined"
ModeDirective(mode) ==
    IF mode.t = "string" /\ mode.v \in DOMAIN ModeDirectiveMap
    THEN ModeDirectiveMap[mode.v]
    ELSE "undefined"

\* the two tone directives the wrong way round
ToneDirectiveSwapped(tone) ==
    IF tone = Str("field") THEN ToneDirectiveTraining ELSE ToneDirectiveField

ToneDirective(tone) ==
    IF tone = Str("field") THEN ToneDirectiveField ELSE ToneDirectiveTraining

\* the prompt as its three fragments, joined by single spaces in the source
buildSystemPrompt(mode, tone) ==
    LET m == DefaultParam(mode, Str("informational"))
        t == DefaultParam(tone, Str("training"))
    IN <<BaseDirective, ToneDirective(t), ModeDirective(m)>>

\* String(x) inside a template literal
Render(x) == IF x.t = "undefined" THEN "undefined" ELSE IF x.t = "null" THEN "null" ELSE x.v

\* the defaults left out: a missing field is rendered as it is
HistoryMessageNoDefaults(item) ==
    [role |-> item.role,
     content |-> <<Render(item.content), "[Mode:" \o Render(item.mode),
                   "|Tone:" \o Render(item.tone) \o "]">>]

HistoryMessage(item) ==
    [role |-> Coalesce(item.role, Str("user")),
     content |-> <<Render(Coalesce(item.content, Str(""))),
                   "[Mode:" \o Render(Coalesce(item.mode, Str("informational"))),
                   "|Tone:" \o Render(Coalesce(item.tone, Str("training"))) \o "]">>]

\* history.map(...) reads item.role: a null element throws a TypeError
HistoryThrows(history) ==
    history.isArray /\ \E i \in 1..Len(history.items) : history.items[i].isNull

HistoryMessages(history) ==
    IF history.isArray
    THEN [i \in 1..Len(history.items) |-> HistoryMessage(history.items[i])]
    ELSE <<>>

\* the new turn put before the history
ComposeMessagesUserFirst(body) ==
    <<[role |-> Str("system"), content |-> buildSystemPrompt(body.mode, body.tone)]>>
    \o <<[role |-> Str("user"), content |-> <<body.userInput.v>>]>>
    \o HistoryMessages(body.history)

ComposeMessages(body) ==
    <<[role |-> Str("system"), content |-> buildSystemPrompt(body.mode, body.tone)]>>
    \o HistoryMessages(body.history)
    \o <<[role |-> Str("user"), content |-> <<body.userInput.v>>]>>

\* the typeof test left out: a truthy non-string passes
InvalidUserInputNoTypeof(userInput) == ~Truthy(userInput)

\* !userInput || typeof userInput !== "string"
InvalidUserInput(userInput) == ~Truthy(userInput) \/ userInput.t # "string"

-----------------------------------------------------------------------------
(* The upstream service: what axios.post can come back with *)

\* text as a sequence of tokens; "_" is white space
Trim(text) ==
    LET solid == {i \in 1..Len(text) : text[i] # "_"}
    IN IF solid = {} THEN <<>>
       ELSE LET lo == CHOOSE i \in solid : \A j \in solid : i <= j
                hi == CHOOSE i \in solid : \A j \in solid : j <= i
            IN SubSeq(text, lo, hi)

\* response.data of a failed call: data.error is absent, a string, or an object
\* whose message is absent or a string
ErrAbsent == [t |-> "undefined", message |-> Undefined]
ErrString == [t |-> "string", message |-> Undefined]
ErrObject(message) == [t |-> "object", message |-> message]
UpstreamMessage == "Incorrect API key provided"
ErrPayloads == {ErrAbsent, ErrString, ErrObject(Str(UpstreamMessage)), ErrObject(Undefined)}

\* hasText: choices[0].message.content is there; isString: it is a string
OkOutcome(hasText, text) ==
    [kind |-> "ok", status |-> 200, hasText |-> hasText, isString |-> TRUE, text |-> text,
     err |-> ErrAbsent]
\* a 2xx answer whose content is there but is not a string (a number, a list of parts)
OkNonString ==
    [kind |-> "ok", status |-> 200, hasText |-> TRUE, isString |-> FALSE, text |-> <<>>,
     err |-> ErrAbsent]
StatusOutcome(status, err) ==
    [kind |-> "status", status |-> status, hasText |-> FALSE, isString |-> FALSE, text |-> <<>>,
     err |-> err]
NetworkOutcome ==
    [kind |-> "network", status |-> 0, hasText |-> FALSE, isString |-> FALSE, text |-> <<>>,
     err |-> ErrAbsent]
TimeoutOutcome ==
    [kind |-> "timeout", status |-> 0, hasText |-> FALSE, isString |-> FALSE, text |-> <<>>,
     err |-> ErrAbsent]
NoOutcome ==
    [kind |-> "none", status |-> 0, hasText |-> FALSE, isString |-> FALSE, text |-> <<>>,
     err |-> ErrAbsent]

\* content?.trim() on a content that has no trim method: a TypeError (server.js:131-132)
ContentThrows(o) == o.kind = "ok" /\ o.hasText /\ ~o.isString

\* every failed call taken for a rate limit, a missing response included
IsRateLimitedOrSilent(o) == o.kind # "ok"

\* axios.isAxiosError(error) && error.response?.status === 429 (server.js:136)
IsRateLimited(o) == o.kind = "status" /\ o.status = 429

Outcomes ==
    {OkOutcome(TRUE, <<"_", "answer", "_">>), OkOutcome(FALSE, <<>>), OkOutcome(TRUE, <<"_">>)}
    \cup {StatusOutcome(429, ErrAbsent), StatusOutcome(429, ErrObject(Str(UpstreamMessage)))}
    \cup {StatusOutcome(401, e) : e \in ErrPayloads}
    \cup {NetworkOutcome, OkNonString}

-----------------------------------------------------------------------------
(* Responses of the gateway *)

NoResponse == [status |-> 0, kind |-> "none", body |-> "", content |-> <<>>]
\* res.status(status).send(text)
SendText(status, text) == [status |-> status, kind |-> "text", body |-> text, content |-> <<>>]
\* res.status(status).send(object): the object goes out as JSON
SendObject(status, what) == [status |-> status, kind |-> "json", body |-> what, content |-> <<>>]
\* res.json({ content })
SendContent(content) == [status |-> 200, kind |-> "json", body |-> "content", content |-> content]

MsgNoKey == "OPENAI_API_KEY is not configured on server."
MsgUserInput == "userInput is required."
MsgRateLimitError == "RATE_LIMIT: exceeded retries"
MsgUpstream429 == "RATE_LIMIT: OpenAI rate limit hit."
MsgUnexpected == "Unexpected server error."
MsgLimiter == "Too many requests, please try again later."
FixedMessages ==
    {MsgNoKey, MsgUserInput, MsgRateLimitError, MsgUpstream429, MsgUnexpected, MsgLimiter}

\* the text of the caught error sent to the client
InternalErrorResponseLeaky == SendText(500, "TypeError: Cannot read properties of null")

\* res.status(500).send("Unexpected server error.") (server.js:89)
InternalErrorResponse == SendText(500, MsgUnexpected)

\* error.message of the AxiosError
AxiosMessage(o) ==
    CASE o.kind = "status" -> "Request failed with status code"
      [] o.kind = "timeout" -> "timeout of 25000ms exceeded"
      [] OTHER -> "Network Error"

\* error.response?.status ?? 500
ErrorStatus(o) == IF o.kind = "status" THEN o.status ELSE 500

\* the catch block of the handler for an AxiosError (server.js:75-87)
AxiosErrorResponse(o) ==
    LET hasResponse == o.kind = "status"
        err == IF hasResponse THEN o.err ELSE ErrAbsent
    IN IF ErrorStatus(o) = 429 THEN SendText(429, MsgUpstream429)
       ELSE IF Truthy(err.message) THEN SendText(ErrorStatus(o), err.message.v)
       ELSE IF err.t = "string" THEN SendText(ErrorStatus(o), "upstream error string")
       ELSE IF err.t = "object" THEN SendObject(ErrorStatus(o), "upstream error object")
       ELSE SendText(ErrorStatus(o), AxiosMessage(o))

-----------------------------------------------------------------------------
(* The requests *)

IdleReq ==
    [pc |-> "idle", src |-> "", hit |-> 0, body |-> Body(Undefined, Undefined, Undefined, FALSE, <<>>),
     handlerRan |-> FALSE, messages |-> <<>>, attempt |-> 0, wake |-> 0, issuedAt |-> 0,
     calls |-> 0, waited |-> 0, backoffSum |-> 0, last |-> NoOutcome, resp |-> NoResponse,
     checks |-> 0, sawLast |-> Never, lastBackoff |-> 0]

\* the response is sent without a return: the handler goes on
FinishNoReturn(q, response) == [q EXCEPT !.resp = response]

Finish(q, response) == [q EXCEPT !.pc = "done", !.resp = response, !.wake = 0, !.issuedAt = 0]

\* the comparison left out: every attempt sleeps the whole interval
ThrottleWaitAlways(t, last) == MIN_INTERVAL_MS

\* server.js:108-112: how long the attempt sleeps before its call (0: no sleep)
ThrottleWait(t, last) ==
    LET sinceLastCall == t - last
    IN IF sinceLastCall < MIN_INTERVAL_MS THEN MIN_INTERVAL_MS - sinceLastCall ELSE 0

\* the backoff counted from zero: no wait after the first 429
BackoffFromZero(attempt) == BackoffStepMs * attempt

\* server.js:137
Backoff(attempt) == BackoffStepMs * (attempt + 1)

\* axios.post is called: the request is on the wire
PostCall(q) == [q EXCEPT !.pc = "inflight", !.issuedAt = now, !.wake = 0, !.calls = @ + 1]

\* the top of the loop body: the throttle check, then the sleep or the call
\* the call made straight away, without the throttle check
BeginAttemptNoCheck(q) == PostCall(q)

\* checks: the throttle checks of the request; sawLast: the lastOpenAICall its
\* latest check read
BeginAttempt(q) ==
    LET w == ThrottleWait(now, lastOpenAICall)
        c == [q EXCEPT !.checks = @ + 1, !.sawLast = lastOpenAICall]
    IN IF w > 0
       THEN [c EXCEPT !.pc = "throttle", !.wake = now + w, !.waited = @ + w]
       ELSE PostCall(c)

\* the loop test off by one
LoopContinuesOffByOne(attempt) == attempt <= maxRetries

\* for (...; attempt < maxRetries; ...): another attempt, or throw new RateLimitError()
LoopContinues(attempt) == attempt < maxRetries

NextIteration(q) ==
    IF LoopContinues(q.attempt)
    THEN BeginAttempt(q)
    ELSE Finish(q, SendText(429, MsgRateLimitError))

\* the issue log follows the calls
LogIssue(q) ==
    IF q.pc = "inflight"
    THEN prevIssue' = lastIssue /\ lastIssue' = now
    ELSE UNCHANGED <<prevIssue, lastIssue>>

\* the credential test left out
KeyMissingIgnored == FALSE

\* if (!OPENAI_API_KEY)
KeyMissing == ~apiKey

\* the userInput test put before the credential test
HandlerBodyInputFirst(q) ==
    LET h == [q EXCEPT !.handlerRan = TRUE]
    IN IF InvalidUserInput(h.body.userInput) THEN Finish(h, SendText(400, MsgUserInput))
       ELSE IF KeyMissing THEN Finish(h, SendText(500, MsgNoKey))
       ELSE IF HistoryThrows(h.body.history) THEN Finish(h, InternalErrorResponse)
       ELSE NextIteration([h EXCEPT !.messages = ComposeMessages(h.body), !.attempt = 0])

\* the body of the route handler up to its first await (server.js:44-68)
HandlerBody(q) ==
    LET h == [q EXCEPT !.handlerRan = TRUE]
    IN IF KeyMissing THEN Finish(h, SendText(500, MsgNoKey))
       ELSE IF InvalidUserInput(h.body.userInput) THEN Finish(h, SendText(400, MsgUserInput))
       ELSE IF HistoryThrows(h.body.history) THEN Finish(h, InternalErrorResponse)
       ELSE NextIteration([h EXCEPT !.messages = ComposeMessages(h.body), !.attempt = 0])

\* chatLimiter: the count of the source after this request
WindowOpen(s) == now < resetTime[s]
HitsAfter(s) == IF WindowOpen(s) THEN hits[s] + 1 ELSE 1
Admitted(totalHits) == totalHits <= RateMax

\* the handler registered without the limiter in front of it
RouteUnguarded(q, passed) == HandlerBody(q)

\* app.post("/chat", chatLimiter, handler): the handler runs behind the limiter
Route(q, passed) ==
    IF passed THEN HandlerBody(q) ELSE Finish(q, SendText(429, MsgLimiter))

-----------------------------------------------------------------------------
(* The request bodies the gateway is driven with *)

TurnUser == Turn(Str("user"), Str("hello"), Str("quiz"), Str("field"))
TurnBare == Turn(Undefined, Str("reply"), Undefined, Undefined)

Bodies ==
    { Body(Str("question"), Undefined, Undefined, FALSE, <<>>),
      Body(Str("question"), Str("quiz"), Str("field"), TRUE, <<TurnUser, TurnBare>>),
      Body(Str("question"), Str("exam"), Str("training"), TRUE, <<>>),
      Body(Str("question"), Str("simulation"), Undefined, TRUE, <<NullTurn>>),
      Body(Undefined, Undefined, Undefined, FALSE, <<>>),
      Body(Str(""), Str("quiz"), Undefined, FALSE, <<>>),
      Body(Null, Undefined, Undefined, FALSE, <<>>),
      Body(Num("7"), Undefined, Str("field"), FALSE, <<>>) }

-----------------------------------------------------------------------------
(* The chat screen (texai.tsx): its messages, the history it sends, what the
   backend can answer, and the bot message sendMessage makes of the answer *)

\* a Message of the screen; text is a sequence of tokens ("_" is white space),
\* summary is metadata.summary
Message(sender, text, mode, tone, summary) ==
    [sender |-> sender, text |-> text, mode |-> mode, tone |-> tone, summary |-> summary]
DEFAULT_BOT_MESSAGE ==
    Message("bot", <<"Welcome to TEXAI.">>, Str("informational"), Undefined, "")

RateLimitNotice == <<"TEXAI is hitting the OpenAI rate limit right now.">>

generateFallbackResponse(prompt, mode, tone) ==
    CASE mode = "quiz" -> <<"Offline quiz assistant:">>
      [] mode = "simulation" -> <<"Simulation stub:">>
      [] OTHER -> <<"Offline informational mode:">> \o prompt

\* the text sent with a white-space-only input let through
UserInputUntrimmed(input) == input

\* const userInput = input.trim()
UserInputOf(input) == Trim(input)

NotSystem(msg) == msg.sender # "system"

\* one turn of the history sent to the backend
HistoryTurn(msg) ==
    [role |-> IF msg.sender = "user" THEN "user" ELSE "assistant",
     content |-> msg.text,
     mode |-> Coalesce(msg.mode, Str("informational")).v,
     tone |-> Coalesce(msg.tone, Str("training")).v]

\* seq.slice(0, n)
SliceFirst(seq, n) == IF Len(seq) <= n THEN seq ELSE SubSeq(seq, 1, n)
\* seq.slice(-n)
SliceLast(seq, n) == IF Len(seq) <= n THEN seq ELSE SubSeq(seq, Len(seq) - n + 1, Len(seq))

\* the oldest turns kept instead of the most recent
trimmedHistoryOldest(msgs) ==
    LET kept == SliceFirst(SelectSeq(msgs, NotSystem), MAX_MEMORY)
    IN [i \in 1..Len(kept) |-> HistoryTurn(kept[i])]

\* texai.tsx:77-85
trimmedHistory(msgs) ==
    LET kept == SliceLast(SelectSeq(msgs, NotSystem), MAX_MEMORY)
    IN [i \in 1..Len(kept) |-> HistoryTurn(kept[i])]

\* what fetch(BACKEND_URL/chat) settles with: a 2xx answer whose JSON has a
\* content or not, another status with a body text, or a rejected fetch
FetchOk(hasContent, content) ==
    [kind |-> "ok", status |-> 200, hasContent |-> hasContent, words |-> content]
FetchFail(status, words) ==
    [kind |-> "fail", status |-> status, hasContent |-> FALSE, words |-> words]
FetchNetwork == [kind |-> "network", status |-> 0, hasContent |-> FALSE, words |-> <<>>]
NoFetch == [kind |-> "none", status |-> 0, hasContent |-> FALSE, words |-> <<>>]

\* the bodies of the gateway's error responses, word by word
GatewayWords(text) ==
    CASE text = MsgRateLimitError -> <<"RATE_LIMIT:", "exceeded", "retries">>
      [] text = MsgLimiter -> <<"Too", "many", "requests,", "please", "try", "again", "later.">>
      [] text = MsgNoKey -> <<"OPENAI_API_KEY", "is", "not", "configured", "on", "server.">>
      [] text = MsgUnexpected -> <<"Unexpected", "server", "error.">>
      [] text = UpstreamMessage -> <<"Incorrect", "API", "key", "provided">>
      [] text = "timeout of 25000ms exceeded" -> <<"timeout", "of", "25000ms", "exceeded">>

\* an upstream 400 whose message the gateway passes on (server.js:77-86)
ContextLengthWords ==
    <<"This", "model's", "maximum", "context", "length", "is", "4097", "tokens.",
      "However,", "your", "messages", "resulted", "in", "4429", "tokens.">>

FetchOutcomes ==
    {FetchOk(TRUE, <<"_", "answer", "_">>), FetchOk(TRUE, <<>>), FetchOk(FALSE, <<>>)}
    \cup {FetchFail(429, GatewayWords(MsgRateLimitError)),
          FetchFail(429, GatewayWords(MsgLimiter)),
          FetchFail(500, GatewayWords(MsgNoKey)),
          FetchFail(500, GatewayWords(MsgUnexpected)),
          FetchFail(401, GatewayWords(UpstreamMessage)),
          FetchFail(500, GatewayWords("timeout of 25000ms exceeded")),
          FetchFail(400, ContextLengthWords),
          FetchFail(502, <<>>)}
    \cup {FetchNetwork}

\* error.message in the catch block of sendMessage (texai.tsx:616-619, 146-147)
ErrorWords(o) ==
    CASE o.kind = "network" -> <<"Network", "request", "failed">>
      [] o.kind # "network" /\ o.words # <<>> -> o.words
      [] OTHER -> <<"Backend", "error", ToString(o.status)>>

\* /429|RATE_LIMIT/i on one word: the words of the model that hold "429" or
\* "rate_limit" in any letter case
RateLimitTokens == {"RATE_LIMIT:", "429", "4429"}
RateLimitedText(words) == \E i \in 1..Len(words) : words[i] \in RateLimitTokens

\* the message sendMessage appends once invokeChatGPT has settled (texai.tsx:125-164)
BotMessage(call, o) ==
    IF o.kind = "ok"
    THEN Message("bot",
                 IF o.hasContent THEN Trim(o.words)
                 ELSE generateFallbackResponse(call.userInput, call.mode, call.tone),
                 Str(call.mode), Str(call.tone), "")
    ELSE IF RateLimitedText(ErrorWords(o))
    THEN Message("bot", RateLimitNotice, Str(call.mode), Str(call.tone), "Rate limit")
    ELSE Message("bot", generateFallbackResponse(call.userInput, call.mode, call.tone),
                 Str(call.mode), Str(call.tone), "Offline fallback")

IdleCall ==
    [pc |-> "idle", userInput |-> <<>>, mode |-> "", tone |-> "", history |-> <<>>,
     last |-> NoFetch]

ChatIdle ==
    /\ uiMessages = <<DEFAULT_BOT_MESSAGE>>
    /\ uiInput = <<>>
    /\ uiMode = "informational"
    /\ uiTone = "field"
    /\ uiLoading = FALSE
    /\ uiCall = IdleCall
    /\ uiPresses = 0
    /\ uiSwitches = 0

-----------------------------------------------------------------------------
(* The gateway *)

GatewayInit ==
    /\ apiKey \in BOOLEAN
    /\ now = StartTime
    /\ lastOpenAICall = 0
    /\ hits = [s \in Sources |-> 0]
    /\ resetTime = [s \in Sources |-> 0]
    /\ admitted = [s \in Sources |-> 0]
    /\ reqs = [r \in Reqs |-> IdleReq]
    /\ prevIssue = Never
    /\ lastIssue = Never

ComposeIdle ==
    /\ cBody = Body(Undefined, Undefined, Undefined, FALSE, <<>>)
    /\ cMessages = <<>>
    /\ cDone = FALSE

Init == GatewayInit /\ ComposeIdle /\ ChatIdle

\* POST /chat arrives: the limiter counts it, then the handler runs to its first await
Arrive(r, B, S) ==
    /\ reqs[r].pc = "idle"
    /\ \E b \in B, s \in S :
         LET q == Route([IdleReq EXCEPT !.src = s, !.hit = HitsAfter(s), !.body = b],
                        Admitted(HitsAfter(s)))
         IN /\ hits' = [hits EXCEPT ![s] = HitsAfter(s)]
            /\ resetTime' = [resetTime EXCEPT ![s] = IF WindowOpen(s) THEN @ ELSE now + windowMs]
            /\ admitted' = [admitted EXCEPT ![s] = (IF WindowOpen(s) THEN @ ELSE 0)
                                                   + (IF q.handlerRan THEN 1 ELSE 0)]
            /\ reqs' = [reqs EXCEPT ![r] = q]
            /\ LogIssue(q)
    /\ UNCHANGED <<apiKey, now, lastOpenAICall>>
    /\ UNCHANGED composeVars
    /\ UNCHANGED chatVars

\* await sleep(MIN_INTERVAL_MS - sinceLastCall) returns: the call is issued
WakeThrottle(r) ==
    /\ reqs[r].pc = "throttle"
    /\ now >= reqs[r].wake
    /\ reqs' = [reqs EXCEPT ![r] = PostCall(reqs[r])]
    /\ LogIssue(PostCall(reqs[r]))
    /\ UNCHANGED <<apiKey, now, lastOpenAICall, hits, resetTime, admitted>>
    /\ UNCHANGED composeVars
    /\ UNCHANGED chatVars

\* the fallback left out: a content that is not there is sent as it is
ExtractContentNoFallback(o) == IF o.hasText THEN Trim(o.text) ELSE <<"undefined">>

\* response.data?.choices?.[0]?.message?.content?.trim() ?? ""
ExtractContent(o) == IF o.hasText THEN Trim(o.text) ELSE <<>>

\* what the request does with the outcome of its call (server.js:131-142, 69-90)
AfterCall(q, o) ==
    LET p == [q EXCEPT !.last = o]
    IN CASE ContentThrows(o) -> Finish(p, InternalErrorResponse)
         [] o.kind = "ok" /\ ~ContentThrows(o) ->
              Finish(p, SendContent(ExtractContent(o)))
         [] o.kind # "ok" /\ IsRateLimited(o) ->
              [p EXCEPT !.pc = "backoff", !.wake = now + Backoff(p.attempt),
                        !.issuedAt = 0,
                        !.waited = @ + Backoff(p.attempt),
                        !.backoffSum = @ + Backoff(p.attempt),
                        !.lastBackoff = Backoff(p.attempt)]
         [] OTHER -> Finish(p, AxiosErrorResponse(o))

\* the stamp cleared when the call fails
StampAfterReset(o) == IF o.kind = "ok" THEN now ELSE 0

\* the stamp made whatever the call came back with
StampAfterAlways(o) == now

\* lastOpenAICall = Date.now() on a 2xx answer only, once its content is read
StampAfter(o) == IF o.kind = "ok" /\ ~ContentThrows(o) THEN now ELSE lastOpenAICall

\* await axios.post(...) settles with a response or a network error
UpstreamRespond(r, O) ==
    /\ reqs[r].pc = "inflight"
    /\ now - reqs[r].issuedAt \in Latencies
    /\ \E o \in O :
         /\ reqs' = [reqs EXCEPT ![r] = AfterCall(reqs[r], o)]
         /\ lastOpenAICall' = StampAfter(o)
    /\ UNCHANGED <<apiKey, now, hits, resetTime, admitted, prevIssue, lastIssue>>
    /\ UNCHANGED composeVars
    /\ UNCHANGED chatVars

\* the 25 s deadline of axios.post passes without a response
UpstreamTimeout(r) ==
    /\ reqs[r].pc = "inflight"
    /\ now >= reqs[r].issuedAt + TimeoutMs
    /\ reqs' = [reqs EXCEPT ![r] = AfterCall(reqs[r], TimeoutOutcome)]
    /\ UNCHANGED <<apiKey, now, lastOpenAICall, hits, resetTime, admitted, prevIssue, lastIssue>>
    /\ UNCHANGED composeVars
    /\ UNCHANGED chatVars

\* one attempt counter for all the requests in progress
NextAttemptShared(r) ==
    1 + reqs[r].attempt
      + (LET others == {x \in Reqs \ {r} : reqs[x].pc \notin {"idle", "done"}}
         IN IF others = {} THEN 0 ELSE reqs[CHOOSE x \in others : TRUE].attempt)

\* for (let attempt = 0; ...; attempt++): the counter of this call of
\* callOpenAIWithRetry
NextAttempt(r) == reqs[r].attempt + 1

\* await sleep(backoff) returns; continue: attempt++ and the loop test
WakeBackoff(r) ==
    /\ reqs[r].pc = "backoff"
    /\ now >= reqs[r].wake
    /\ LET q == NextIteration([reqs[r] EXCEPT !.attempt = NextAttempt(r), !.wake = 0])
       IN /\ reqs' = [reqs EXCEPT ![r] = q]
          /\ LogIssue(q)
    /\ UNCHANGED <<apiKey, now, lastOpenAICall, hits, resetTime, admitted>>
    /\ UNCHANGED composeVars
    /\ UNCHANGED chatVars

\* The response is out and the request is gone: the slot is free for another
\* request
Forget(r) ==
    /\ reqs[r].pc = "done"
    /\ reqs' = [reqs EXCEPT ![r] = IdleReq]
    /\ UNCHANGED <<apiKey, now, lastOpenAICall, hits, resetTime, admitted, prevIssue, lastIssue>>
    /\ UNCHANGED composeVars
    /\ UNCHANGED chatVars

\* Timers that must fire before time passes them
Deadlines ==
    {reqs[r].wake : r \in {x \in Reqs : reqs[x].pc \in {"throttle", "backoff"}}}
    \cup {reqs[r].issuedAt + TimeoutMs : r \in {x \in Reqs : reqs[x].pc = "inflight"}}

\* Instants at which something can happen next
Instants ==
    Deadlines
    \cup {reqs[r].issuedAt + l : r \in {x \in Reqs : reqs[x].pc = "inflight"}, l \in Latencies}
    \cup {resetTime[s] : s \in {x \in Sources : \E r \in Reqs : reqs[r].pc = "idle"}}

\* The clock moves on to the next instant of interest
Advance ==
    /\ \E t \in Instants :
         /\ t > now
         /\ \A d \in Deadlines : t <= d
         /\ now' = t
    /\ UNCHANGED <<apiKey, lastOpenAICall, hits, resetTime, admitted, reqs, prevIssue, lastIssue>>
    /\ UNCHANGED composeVars
    /\ UNCHANGED chatVars

\* Two requests in progress at once
ConcBodies ==
    { Body(Str("question"), Str("quiz"), Str("field"), TRUE, <<TurnUser>>),
      Body(Undefined, Undefined, Undefined, FALSE, <<>>),
      Body(Str(""), Str("quiz"), Undefined, FALSE, <<>>),
      Body(Num("7"), Undefined, Str("field"), FALSE, <<>>),
      Body(Str("question"), Str("simulation"), Undefined, TRUE, <<NullTurn>>) }
ConcOutcomes ==
    { OkOutcome(TRUE, <<"_", "answer", "_">>), StatusOutcome(429, ErrAbsent),
      StatusOutcome(401, ErrObject(Str(UpstreamMessage))) }

Next ==
    \/ \E r \in Reqs : Arrive(r, ConcBodies, {"ipA"})
    \/ \E r \in Reqs : WakeThrottle(r)
    \/ \E r \in Reqs : UpstreamRespond(r, ConcOutcomes)
    \/ \E r \in Reqs : UpstreamTimeout(r)
    \/ \E r \in Reqs : WakeBackoff(r)
    \/ Advance

Spec == Init /\ [][Next]_vars

\* The event loop runs every callback that is ready: a timer that is due fires,
\* a call that is on the wire settles with an answer or with its timeout, and
\* the clock moves on.  Requests arrive when their clients send them, or never.
Fairness ==
    /\ WF_vars(Advance)
    /\ \A r \in Reqs :
           /\ WF_vars(WakeThrottle(r))
           /\ WF_vars(WakeBackoff(r))
           /\ WF_vars(UpstreamRespond(r, ConcOutcomes) \/ UpstreamTimeout(r))
SpecLive == Spec /\ Fairness

\* One request alone, with every body and every upstream outcome.  Nothing has
\* stamped lastOpenAICall before its calls, so its throttle check never sleeps.
NextOne ==
    \/ Arrive(1, Bodies, Sources)
    \/ UpstreamRespond(1, Outcomes)
    \/ UpstreamTimeout(1)
    \/ WakeBackoff(1)
    \/ Advance

SpecOne == Init /\ [][NextOne]_vars

\* Many requests, one after the other, against the admission limiter: one
\* window of the limiter and the start of the next
CapBodies ==
    { Body(Str("question"), Undefined, Undefined, FALSE, <<>>),
      Body(Str(""), Undefined, Undefined, FALSE, <<>>) }
CapOutcomes == { OkOutcome(TRUE, <<"answer">>), StatusOutcome(401, ErrAbsent) }
CapHorizon == StartTime + windowMs
TotalHits == hits["ipA"] + hits["ipB"]

NextCap ==
    \/ TotalHits < MaxArrivals /\ Arrive(1, CapBodies, Sources)
    \/ reqs[1].calls = 0 /\ Forget(1)
    \/ UpstreamRespond(1, CapOutcomes)
    \/ UpstreamTimeout(1)
    \/ Advance /\ now' <= CapHorizon

SpecCap == Init /\ [][NextCap]_vars

\* Requests that follow one another closely: up to MaxQueued requests with a
\* valid body, two of them in progress at once, every call answered 2xx or not
\* at all
MaxQueued == 3
QueueBodies == { Body(Str("question"), Undefined, Undefined, FALSE, <<>>) }
QueueOutcomes == { OkOutcome(TRUE, <<"answer">>) }

NextQueue ==
    \/ \E r \in Reqs : TotalHits < MaxQueued /\ Arrive(r, QueueBodies, {"ipA"})
    \/ \E r \in Reqs : Forget(r)
    \/ \E r \in Reqs : WakeThrottle(r)
    \/ \E r \in Reqs : UpstreamRespond(r, QueueOutcomes)
    \/ \E r \in Reqs : UpstreamTimeout(r)
    \/ Advance /\ now' <= CapHorizon

SpecQueue == Init /\ [][NextQueue]_vars

-----------------------------------------------------------------------------
(* Prompt composition on its own: the try block of the handler up to the call
   of callOpenAIWithRetry, for histories of every length up to MaxHistory *)

TurnKinds == {TurnUser, TurnBare, NullTurn}
Histories ==
    {[isArray |-> FALSE, items |-> <<>>]}
    \cup UNION {{[isArray |-> TRUE, items |-> h] : h \in [1..n -> TurnKinds]} : n \in 0..MaxHistory}
\* turns that carry some of their fields only
TurnPart == Turn(Str("assistant"), Undefined, Str("simulation"), Undefined)
TurnNulls == Turn(Null, Str("reply"), Null, Str("field"))
PartHistories == {<<TurnPart>>, <<TurnNulls>>, <<TurnUser, TurnPart, TurnBare, TurnNulls>>}
\* every mode with every tone, with the short histories
Modes == {Undefined, Str("informational"), Str("quiz"), Str("simulation"), Str("exam")}
Tones == {Undefined, Str("field"), Str("training")}
ShortHistories == {h \in Histories : Len(h.items) <= 1}
ComposeBodies ==
    {[userInput |-> Str("question"), mode |-> mt[1], tone |-> mt[2], history |-> h] :
        mt \in {<<Undefined, Undefined>>, <<Str("quiz"), Str("field")>>,
                <<Str("exam"), Str("training")>>},
        h \in Histories}
    \cup {[userInput |-> Str("question"), mode |-> m, tone |-> t, history |-> h] :
        m \in Modes, t \in Tones, h \in ShortHistories}
    \cup {[userInput |-> Str("question"), mode |-> Str("quiz"), tone |-> Undefined,
           history |-> [isArray |-> TRUE, items |-> h]] : h \in PartHistories}

ComposeInit ==
    /\ GatewayInit
    /\ apiKey
    /\ cBody \in ComposeBodies
    /\ cMessages = <<>>
    /\ cDone = FALSE
    /\ ChatIdle

\* server.js:55-66; a throw leaves no message list
Compose ==
    /\ ~cDone
    /\ cDone' = TRUE
    /\ cMessages' = IF HistoryThrows(cBody.history) THEN <<>> ELSE ComposeMessages(cBody)
    /\ UNCHANGED <<cBody, apiKey, now, lastOpenAICall, hits, resetTime, admitted, reqs,
                   prevIssue, lastIssue>>
    /\ UNCHANGED chatVars

SpecCompose == ComposeInit /\ [][Compose]_vars

-----------------------------------------------------------------------------
(* The chat screen in use: the user types, changes mode and tone, presses send;
   the backend answers *)

\* sendMessage calls and setting changes of one run: a long conversation with
\* few kinds of answer, a short one with every kind
MaxSends == 4
MaxSwitches == 2
MaxSendsShort == 2

gatewayVars == <<apiKey, now, lastOpenAICall, hits, resetTime, admitted, reqs, prevIssue,
                 lastIssue>>

Inputs == {<<>>, <<"_">>, <<"_", "question", "_">>}
InteractionModes == {"informational", "quiz", "simulation"}
ToneModes == {"field", "training"}

\* onChangeText={setInput}
TypeInput ==
    /\ \E text \in Inputs : text # uiInput /\ uiInput' = text
    /\ UNCHANGED <<uiMessages, uiMode, uiTone, uiLoading, uiCall, uiPresses, uiSwitches>>
    /\ UNCHANGED gatewayVars /\ UNCHANGED composeVars

\* onChange={setMode}
SetMode ==
    /\ uiSwitches < MaxSwitches
    /\ \E m \in InteractionModes : m # uiMode /\ uiMode' = m
    /\ uiSwitches' = uiSwitches + 1
    /\ UNCHANGED <<uiMessages, uiInput, uiTone, uiLoading, uiCall, uiPresses>>
    /\ UNCHANGED gatewayVars /\ UNCHANGED composeVars

\* onChange={setTone}
SetTone ==
    /\ uiSwitches < MaxSwitches
    /\ \E t \in ToneModes : t # uiTone /\ uiTone' = t
    /\ uiSwitches' = uiSwitches + 1
    /\ UNCHANGED <<uiMessages, uiInput, uiMode, uiLoading, uiCall, uiPresses>>
    /\ UNCHANGED gatewayVars /\ UNCHANGED composeVars

\* sendMessage up to await fetch (texai.tsx:108-131, 603); the send button is
\* disabled while loading (texai.tsx:254)
SendMessage(limit) ==
    /\ ~uiLoading
    /\ uiPresses < limit
    /\ uiPresses' = uiPresses + 1
    /\ LET userInput == UserInputOf(uiInput)
       IN IF userInput = <<>>
          THEN UNCHANGED <<uiMessages, uiInput, uiLoading, uiCall>>
          ELSE /\ uiMessages' = Append(uiMessages,
                                       Message("user", userInput, Str(uiMode), Str(uiTone), ""))
               /\ uiInput' = <<>>
               /\ uiLoading' = TRUE
               /\ uiCall' = [pc |-> "awaiting", userInput |-> userInput, mode |-> uiMode,
                             tone |-> uiTone, history |-> trimmedHistory(uiMessages),
                             last |-> NoFetch]
    /\ UNCHANGED <<uiMode, uiTone, uiSwitches>>
    /\ UNCHANGED gatewayVars /\ UNCHANGED composeVars

\* fetch settles: the rest of invokeChatGPT and of sendMessage (texai.tsx:132-166, 616-624)
BackendAnswer(O) ==
    /\ uiCall.pc = "awaiting"
    /\ \E o \in O :
         /\ uiMessages' = Append(uiMessages, BotMessage(uiCall, o))
         /\ uiCall' = [uiCall EXCEPT !.pc = "settled", !.last = o]
    /\ uiLoading' = FALSE
    /\ UNCHANGED <<uiInput, uiMode, uiTone, uiPresses, uiSwitches>>
    /\ UNCHANGED gatewayVars /\ UNCHANGED composeVars

ChatInit == Init /\ apiKey = TRUE

\* A conversation long enough for the history to be cut
LongOutcomes ==
    {FetchOk(TRUE, <<"_", "answer", "_">>), FetchFail(429, GatewayWords(MsgRateLimitError))}

NextChat ==
    \/ TypeInput
    \/ SetMode
    \/ SetTone
    \/ SendMessage(MaxSends)
    \/ BackendAnswer(LongOutcomes)

SpecChat == ChatInit /\ [][NextChat]_vars

\* A short conversation with every answer of the backend
NextChatShort ==
    \/ TypeInput
    \/ SetMode
    \/ SetTone
    \/ SendMessage(MaxSendsShort)
    \/ BackendAnswer(FetchOutcomes)

SpecChatShort == ChatInit /\ [][NextChatShort]_vars

-----------------------------------------------------------------------------
(* Properties *)

Started(r) == reqs[r].pc # "idle"
Done(r) == reqs[r].pc = "done"
Answered429(r) == reqs[r].last.kind = "status" /\ reqs[r].last.status = 429
Rejected(r) == reqs[r].last.kind = "status" /\ reqs[r].last.status # 429
Alone(r) == \A x \in Reqs \ {r} : ~Started(x)
\* userInput is missing, null, empty or not a string
BadUserInput(x) == x.t # "string" \/ x.v = ""

\* C1: the instants at which upstream calls are issued are pairwise at least
\* MIN_INTERVAL_MS apart (the calls are issued in time order, so every two
\* consecutive ones are).
C1_CallsSpaced ==
    prevIssue # Never => lastIssue - prevIssue >= MIN_INTERVAL_MS

\* C2 as stated: an admitted request with a missing, empty or non-string
\* userInput is answered 400 and makes no throttle check and no upstream call.
C2_InvalidInputIs400 ==
    \A r \in Reqs :
        (Started(r) /\ reqs[r].handlerRan /\ BadUserInput(reqs[r].body.userInput))
        => /\ Done(r)
           /\ reqs[r].resp = SendText(400, MsgUserInput)
           /\ reqs[r].calls = 0 /\ reqs[r].waited = 0 /\ reqs[r].messages = <<>>

\* C2 amended: such a request is answered 400 when the credential is configured
\* and 500 (credential missing) when it is not; either way it makes no throttle
\* check and no upstream call.
C2_InvalidInputRejected ==
    \A r \in Reqs :
        (Started(r) /\ reqs[r].handlerRan /\ BadUserInput(reqs[r].body.userInput))
        => /\ Done(r)
           /\ reqs[r].resp =
                  IF apiKey THEN SendText(400, MsgUserInput) ELSE SendText(500, MsgNoKey)
           /\ reqs[r].calls = 0 /\ reqs[r].waited = 0 /\ reqs[r].messages = <<>>

C2_Witness ==
    \E r \in Reqs :
        /\ Done(r) /\ reqs[r].handlerRan /\ apiKey
        /\ reqs[r].body.userInput = Num("7")
        /\ reqs[r].resp.status = 400
        /\ lastIssue # Never

\* C3: a request whose every call is answered 429 issues exactly maxRetries (4)
\* calls and is then answered 429 with the fixed RateLimitError message,
\* whatever the upstream sent in its 429 bodies; no request issues more calls.
C3_ExhaustedAfterMaxRetries ==
    \A r \in Reqs :
        /\ reqs[r].calls <= maxRetries
        /\ (Done(r) /\ Answered429(r))
           => /\ reqs[r].calls = maxRetries
              /\ maxRetries = 4
              /\ reqs[r].resp = SendText(429, MsgRateLimitError)

C3_Witness ==
    \E r \in Reqs :
        /\ Done(r) /\ Answered429(r) /\ reqs[r].calls = 4
        /\ reqs[r].last.err = ErrObject(Str(UpstreamMessage))
        /\ reqs[r].resp.status = 429

GenericFallbacks == {"OpenAI request failed.", "Request failed with status code"}
C5_RejectedNotRetried ==
    \A r \in Reqs :
        (Started(r) /\ Rejected(r))
        => /\ Done(r)
           /\ reqs[r].calls = reqs[r].attempt + 1
           /\ reqs[r].resp.status = reqs[r].last.status
           /\ reqs[r].resp.kind = "text"
           /\ \/ /\ Truthy(reqs[r].last.err.message)
                 /\ reqs[r].resp.body = reqs[r].last.err.message.v
              \/ /\ ~Truthy(reqs[r].last.err.message) /\ reqs[r].last.err.t = "string"
                 /\ reqs[r].resp.body = "upstream error string"
              \/ /\ ~Truthy(reqs[r].last.err.message) /\ reqs[r].last.err.t # "string"
                 /\ reqs[r].resp.body \in GenericFallbacks

\* C6: in one window of the limiter at most RateMax (60) requests of a source
\* reach the handler; every further request of that source in the window is
\* answered 429 by the limiter without the handler body running: no throttle
\* check, no composed prompt, no upstream call.
C6_AdmissionCap ==
    /\ \A s \in Sources : admitted[s] <= 60
    /\ \A r \in Reqs :
           Started(r) =>
               IF reqs[r].hit > 60
               THEN /\ Done(r) /\ ~reqs[r].handlerRan
                    /\ reqs[r].resp = SendText(429, MsgLimiter)
                    /\ reqs[r].calls = 0 /\ reqs[r].waited = 0 /\ reqs[r].messages = <<>>
               ELSE reqs[r].handlerRan

C6_Witness ==
    \E r \in Reqs :
        /\ Done(r) /\ reqs[r].hit = 61 /\ ~reqs[r].handlerRan
        /\ apiKey /\ ~InvalidUserInput(reqs[r].body.userInput)
        /\ reqs[r].resp.status = 429
        /\ admitted[reqs[r].src] = 60

\* C7: without a configured credential every admitted request is answered 500
\* with the misconfiguration message and no upstream call is ever issued.
C7_NoKeyNoCall ==
    ~apiKey =>
        /\ lastIssue = Never
        /\ \A r \in Reqs :
               (Started(r) /\ reqs[r].handlerRan)
               => /\ Done(r)
                  /\ reqs[r].resp = SendText(500, MsgNoKey)
                  /\ reqs[r].calls = 0

C7_Witness ==
    /\ ~apiKey
    /\ \E r \in Reqs :
           /\ Done(r) /\ reqs[r].handlerRan
           /\ ~InvalidUserInput(reqs[r].body.userInput)
           /\ reqs[r].resp.status = 500

\* C8: a request whose mode is present but is none of informational, quiz,
\* simulation is answered 400 (InvalidInput): no prompt is composed for it and
\* no upstream call is issued for it.
KnownModes == {Str("informational"), Str("quiz"), Str("simulation")}
C8_UnknownModeFailsClosed ==
    \A r \in Reqs :
        (/\ Started(r) /\ reqs[r].handlerRan /\ apiKey
         /\ reqs[r].body.mode # Undefined /\ reqs[r].body.mode \notin KnownModes)
        => /\ Done(r)
           /\ reqs[r].resp.status = 400
           /\ reqs[r].calls = 0
           /\ reqs[r].messages = <<>>

\* The history turns of the composed request, and their number
TurnsOf(body) == IF body.history.isArray THEN body.history.items ELSE <<>>
Kept(body) == IF Len(TurnsOf(body)) < MAX_MEMORY THEN Len(TurnsOf(body)) ELSE MAX_MEMORY
Composed == cDone /\ ~HistoryThrows(cBody.history)

\* C9: the message list sent upstream holds only the most recent M history
\* turns, in their order, so it has at most M + 2 messages.
C9_HistoryTruncated ==
    Composed =>
        /\ Len(cMessages) = Kept(cBody) + 2
        /\ Len(cMessages) <= MAX_MEMORY + 2
        /\ \A i \in 1..Kept(cBody) :
               cMessages[1 + i].content[1]
                   = TurnsOf(cBody)[Len(TurnsOf(cBody)) - Kept(cBody) + i].content.v

\* C10: the composed list is one system message, then one message per history
\* turn in the order of the request's history, then the new user turn last.
C10_MessageOrder ==
    Composed =>
        LET turns == TurnsOf(cBody)
            n == Len(turns)
        IN /\ Len(cMessages) = n + 2
           /\ cMessages[1].role = Str("system")
           /\ \A i \in 1..n :
                  /\ cMessages[1 + i].content[1] = turns[i].content.v
                  /\ cMessages[1 + i].role
                         = IF Nullish(turns[i].role) THEN Str("user") ELSE turns[i].role
                  /\ cMessages[1 + i].role # Str("system")
           /\ cMessages[n + 2] = [role |-> Str("user"), content |-> <<cBody.userInput.v>>]

C10_Witness ==
    /\ Composed
    /\ Len(TurnsOf(cBody)) = 3
    /\ TurnsOf(cBody)[1] # TurnsOf(cBody)[2]
    /\ Len(cMessages) = 5
    /\ cMessages[5].content = <<"question">>

\* C11: for every mode in informational, quiz, simulation and every tone in
\* field, training, the system message holds the role statement, the directive
\* of that tone and not of the other, and the directive of that mode and of no
\* other mode.
RoleText == "You are TEXAI"
ToneText(t) ==
    IF t = "field" THEN "Respond concisely"
    ELSE "Respond with a detailed, instructional tone"
ModeText(m) ==
    CASE m = "informational" -> "Deliver clear regulatory guidance"
      [] m = "quiz" -> "Act as a quiz engine"
      [] m = "simulation" -> "Run a branching scenario"
Fragments(message) == {message.content[i] : i \in 1..Len(message.content)}
C11_SystemPromptDirectives ==
    (/\ Composed
     /\ cBody.mode \in {Str("informational"), Str("quiz"), Str("simulation")}
     /\ cBody.tone \in {Str("field"), Str("training")})
    => /\ cMessages[1].role = Str("system")
       /\ RoleText \in Fragments(cMessages[1])
       /\ \A t \in {"field", "training"} :
              ToneText(t) \in Fragments(cMessages[1]) <=> t = cBody.tone.v
       /\ \A m \in {"informational", "quiz", "simulation"} :
              ModeText(m) \in Fragments(cMessages[1]) <=> m = cBody.mode.v

C11_Witness ==
    /\ Composed
    /\ cBody.mode = Str("quiz") /\ cBody.tone = Str("field")
    /\ "Act as a quiz engine" \in Fragments(cMessages[1])
    /\ "Respond concisely" \in Fragments(cMessages[1])

Silent(r) == reqs[r].last.kind \in {"network", "timeout"}

\* C12: a call that gets no response at all (a network failure, or no answer
\* within the 25 s timeout) is answered with status 500 and an error text, and
\* is never retried: the silent call is the last call of the request, so a
\* first call that goes silent is the only one.
C12_SilentCallIs500 ==
    \A r \in Reqs :
        (Started(r) /\ Silent(r))
        => /\ Done(r)
           /\ reqs[r].resp.status = 500
           /\ reqs[r].resp.kind = "text"
           /\ reqs[r].resp.body \in {"Network Error", "timeout of 25000ms exceeded"}
           /\ reqs[r].calls = reqs[r].attempt + 1
           /\ (reqs[r].backoffSum = 0 => reqs[r].calls = 1)

C12_Witness ==
    \E r \in Reqs :
        /\ Done(r) /\ reqs[r].last.kind = "timeout"
        /\ reqs[r].calls = 1
        /\ reqs[r].resp.status = 500
        /\ now >= StartTime + TimeoutMs

\* C13: a request whose upstream call timed out does not count against the
\* admission cap of its source: once it is answered, the count of its source in
\* the current window is back below the count the request was admitted with.
C13_TimeoutNotCounted ==
    \A r \in Reqs :
        (Done(r) /\ reqs[r].last.kind = "timeout" /\ now < resetTime[reqs[r].src])
        => hits[reqs[r].src] < reqs[r].hit

\* C14: the body of an error response is a fixed gateway message (the texts
\* of the gateway itself, or the text of the transport failure) or the
\* upstream's human-readable error message; nothing else of the upstream
\* response payload, such as a whole error object without a message field, is
\* sent to the client.
TransportMessages ==
    {"Request failed with status code", "Network Error", "timeout of 25000ms exceeded"}
C14_NoPayloadLeak ==
    \A r \in Reqs :
        (Done(r) /\ reqs[r].resp.status # 200)
        => /\ reqs[r].resp.kind = "text"
           /\ \/ reqs[r].resp.body \in FixedMessages \cup TransportMessages
              \/ /\ Rejected(r) /\ Truthy(reqs[r].last.err.message)
                 /\ reqs[r].resp.body = reqs[r].last.err.message.v
              \/ /\ Rejected(r) /\ reqs[r].last.err.t = "string"
                 /\ reqs[r].resp.body = "upstream error string"

\* C15: every request that reached the gateway is answered exactly once and
\* then is over: it makes at most 4 upstream calls, a response is out exactly
\* when the request is done, its status is 200, 400, 429, 500 or the status the
\* upstream rejected the call with, a request that is done never changes
\* again, and every request that has started is eventually done.
C15_AnsweredExactlyOnce ==
    /\ [](\A r \in Reqs :
             /\ reqs[r].calls <= 4
             /\ Done(r) <=> reqs[r].resp # NoResponse
             /\ Done(r) => reqs[r].resp.status
                               \in {200, 400, 429, 500}
                                   \cup (IF Rejected(r) THEN {reqs[r].last.status} ELSE {}))
    /\ [][\A r \in Reqs : Done(r) => reqs'[r] = reqs[r]]_vars
    /\ \A r \in Reqs : Started(r) ~> Done(r)

C15_Witness ==
    /\ \A r \in Reqs : Done(r)
    /\ \E r \in Reqs : reqs[r].calls = 4 /\ reqs[r].resp.status = 200
    /\ \E r \in Reqs : reqs[r].calls = 4 /\ reqs[r].resp.status = 429

\* a history entry that is null: reading its role is a TypeError
HasNullEntry(body) ==
    body.history.isArray /\ \E i \in 1..Len(body.history.items) : body.history.items[i] = NullTurn
\* a 2xx answer whose content is not a string: trimming it is a TypeError
ContentNotString(r) ==
    reqs[r].last.kind = "ok" /\ reqs[r].last.hasText /\ ~reqs[r].last.isString

\* C16: a failure that is neither the exhaustion of the retries nor an error of
\* the upstream call (a null history entry met while the messages are built, a
\* 2xx answer whose content cannot be trimmed) is answered with status 500 and
\* the fixed text "Unexpected server error.", and no upstream call is issued
\* after it: none at all for the history entry, none after the answer.
C16_InternalErrorIs500 ==
    \A r \in Reqs :
        /\ (Started(r) /\ reqs[r].handlerRan /\ apiKey
              /\ ~BadUserInput(reqs[r].body.userInput) /\ HasNullEntry(reqs[r].body))
           => /\ Done(r)
              /\ reqs[r].resp = SendText(500, "Unexpected server error.")
              /\ reqs[r].calls = 0 /\ reqs[r].checks = 0
        /\ (Started(r) /\ ContentNotString(r))
           => /\ Done(r)
              /\ reqs[r].resp = SendText(500, "Unexpected server error.")
              /\ reqs[r].calls = reqs[r].attempt + 1

C16_Witness ==
    \E r \in Reqs :
        /\ Done(r) /\ reqs[r].handlerRan /\ apiKey
        /\ HasNullEntry(reqs[r].body)
        /\ reqs[r].resp.status = 500 /\ reqs[r].resp.body = "Unexpected server error."
        /\ lastIssue = Never

\* the attempt has read lastOpenAICall and has not stamped it yet
Acquiring(r) == reqs[r].pc \in {"throttle", "inflight"}

\* C17: the throttle's check and stamp are one atomic step for each attempt:
\* while an attempt that has read lastOpenAICall is waiting out its interval, no
\* attempt of another request has computed its own wait from the same value.
C17_AtomicAcquire ==
    \A r1 \in Reqs, r2 \in Reqs :
        (r1 # r2 /\ reqs[r1].pc = "throttle" /\ Acquiring(r2))
        => reqs[r1].sawLast # reqs[r2].sawLast

\* C18: every attempt stamps lastOpenAICall with the current time before its
\* call goes out, whatever the outcome of the call: once a call has been
\* issued, lastOpenAICall is the instant at which the latest call was issued.
C18_StampBeforeCall ==
    lastIssue # Never => lastOpenAICall = lastIssue

\* C19: every attempt, a retry after a backoff included, goes through the
\* throttle check before its call: a request has made one check for each of its
\* attempts and never more calls than checks, and a call that is on the wire
\* was issued at least MIN_INTERVAL_MS after the lastOpenAICall its check read.
C19_CheckBeforeEveryCall ==
    \A r \in Reqs :
        /\ reqs[r].calls <= reqs[r].checks
        /\ reqs[r].pc \in {"throttle", "inflight"} => reqs[r].checks = reqs[r].attempt + 1
        /\ reqs[r].pc = "inflight"
           => /\ reqs[r].calls = reqs[r].checks
              /\ reqs[r].issuedAt - reqs[r].sawLast >= 2500

\* a retry that slept its backoff, then the rest of the interval, then called
C19_Witness ==
    \E r \in Reqs :
        /\ reqs[r].pc = "inflight" /\ reqs[r].attempt >= 1
        /\ reqs[r].checks = reqs[r].attempt + 1
        /\ reqs[r].sawLast > 0
        /\ reqs[r].issuedAt = reqs[r].sawLast + MIN_INTERVAL_MS
        /\ reqs[r].waited > reqs[r].backoffSum

\* the request sleeps its backoff and another attempt is left
BackingOff(r) == reqs[r].pc = "backoff" /\ reqs[r].attempt + 1 < 4

\* C20 as stated: after a 429 on the attempt with index attemptIndex (from 0),
\* when attempts remain, the wait before the next attempt is attemptIndex * 500
\* ms, counted from the 429.
C20_BackoffIsIndexTimesStep ==
    \A r \in Reqs :
        BackingOff(r)
        => /\ reqs[r].lastBackoff = reqs[r].attempt * 500
           /\ reqs[r].wake - reqs[r].lastBackoff <= now

\* C20 amended: the wait is (attemptIndex + 1) * 500 ms, counted from the 429
\* (500, 1000, 1500 ms), and each backoff of a request is longer than the one
\* before it.
C20_BackoffIsNextIndexTimesStep ==
    /\ [](\A r \in Reqs :
             BackingOff(r)
             => /\ reqs[r].lastBackoff = (reqs[r].attempt + 1) * 500
                /\ reqs[r].wake - reqs[r].lastBackoff <= now
                /\ now <= reqs[r].wake)
    /\ [][\A r \in Reqs :
             (reqs[r].pc # "backoff" /\ reqs'[r].pc = "backoff" /\ reqs[r].backoffSum > 0)
             => reqs'[r].lastBackoff > reqs[r].lastBackoff]_vars

C20_Witness ==
    \E r \in Reqs :
        /\ reqs[r].pc = "backoff" /\ reqs[r].attempt = 2
        /\ reqs[r].lastBackoff = 1500
        /\ reqs[r].wake = now + 1500
        /\ reqs[r].backoffSum = 3000

\* C21: a backoff wait happens only when another attempt is left: a request
\* never sleeps a backoff after its 4th call was answered 429, and a request
\* that failed with the exhaustion of its retries has slept the three backoffs
\* between its four calls and no more.
C21_NoBackoffAfterLastAttempt ==
    \A r \in Reqs :
        /\ reqs[r].pc = "backoff" => reqs[r].attempt + 1 < 4
        /\ (Done(r) /\ reqs[r].resp = SendText(429, MsgRateLimitError))
           => reqs[r].backoffSum = 500 + 1000 + 1500

\* the field of a turn is there (neither undefined nor null)
Carries(x) == x.t \notin {"undefined", "null"}
OrElse(x, d) == IF Carries(x) THEN x.v ELSE d

\* C22 as stated: each history turn gives exactly one message, in order; its
\* role is the turn's role, or "user" when the turn has none; its content is the
\* turn's content, followed by the annotation of the turn's own mode and tone
\* when the turn carries them, and by nothing when it does not.
C22_AnnotatedWhenCarried ==
    Composed =>
        LET turns == TurnsOf(cBody)
        IN /\ Len(cMessages) = Len(turns) + 2
           /\ \A i \in 1..Len(turns) :
                  /\ cMessages[1 + i].role = Str(OrElse(turns[i].role, "user"))
                  /\ cMessages[1 + i].content =
                         IF Carries(turns[i].mode) /\ Carries(turns[i].tone)
                         THEN <<OrElse(turns[i].content, ""),
                                "[Mode:" \o turns[i].mode.v, "|Tone:" \o turns[i].tone.v \o "]">>
                         ELSE <<OrElse(turns[i].content, "")>>

\* C22 amended: every message of a history turn ends with the annotation; a
\* turn without a mode is annotated informational and a turn without a tone is
\* annotated training.
C22_AnnotatedWithDefaults ==
    Composed =>
        LET turns == TurnsOf(cBody)
        IN /\ Len(cMessages) = Len(turns) + 2
           /\ \A i \in 1..Len(turns) :
                  /\ cMessages[1 + i].role = Str(OrElse(turns[i].role, "user"))
                  /\ cMessages[1 + i].content =
                         <<OrElse(turns[i].content, ""),
                           "[Mode:" \o OrElse(turns[i].mode, "informational"),
                           "|Tone:" \o OrElse(turns[i].tone, "training") \o "]">>

C22_Witness ==
    /\ Composed
    /\ Len(TurnsOf(cBody)) = 4
    /\ TurnsOf(cBody)[2].tone = Undefined /\ TurnsOf(cBody)[2].content = Undefined
    /\ cMessages[3] = [role |-> Str("assistant"),
                       content |-> <<"", "[Mode:simulation", "|Tone:training]">>]
    /\ cMessages[2].content = <<"hello", "[Mode:quiz", "|Tone:field]">>
    /\ cMessages[5].role = Str("user")

InProgress(r) == reqs[r].pc \notin {"idle", "done"}

\* C23: requests do not interfere except through the throttle.  A step of one
\* request leaves the record of every other request as it was; the calls of a
\* request are counted by its own attempt counter (at most 4, under every
\* interleaving) and its backoffs follow its own 429s; and two requests with the
\* same body whose last calls had the same outcome get the same response,
\* whatever happened to the other requests meanwhile.
C23_RequestScoped ==
    /\ [](\A r \in Reqs :
             /\ reqs[r].calls <= 4
             /\ reqs[r].pc = "inflight" => reqs[r].calls = reqs[r].attempt + 1
             /\ reqs[r].pc = "backoff"
                => /\ reqs[r].calls = reqs[r].attempt + 1
                   /\ 2 * reqs[r].backoffSum
                        = 500 * (reqs[r].attempt + 1) * (reqs[r].attempt + 2))
    /\ [](\A r1 \in Reqs, r2 \in Reqs :
             (/\ Done(r1) /\ Done(r2)
              /\ reqs[r1].body = reqs[r2].body
              /\ reqs[r1].last = reqs[r2].last)
             => reqs[r1].resp = reqs[r2].resp)
    /\ [][\A r1 \in Reqs, r2 \in Reqs :
             (r1 # r2 /\ reqs'[r1] # reqs[r1]) => reqs'[r2] = reqs[r2]]_vars

\* one request sleeps its third backoff while the other is at its first call
C23_Witness ==
    \E r1 \in Reqs, r2 \in Reqs :
        /\ r1 # r2
        /\ reqs[r1].pc = "backoff" /\ reqs[r1].attempt = 2 /\ reqs[r1].calls = 3
        /\ reqs[r2].pc = "inflight" /\ reqs[r2].attempt = 0 /\ reqs[r2].calls = 1

\* the request was answered by the handler before callOpenAIWithRetry was called
RejectedEarly(q) ==
    /\ q.pc = "done" /\ q.handlerRan
    /\ q.resp \in {SendText(500, MsgNoKey), SendText(400, MsgUserInput),
                   SendText(500, MsgUnexpected)}
    /\ q.checks = 0

\* C24: a request that is rejected before it reaches the executor (no
\* credential, invalid userInput, a failure while the prompt is composed)
\* leaves lastOpenAICall and the issue log as they were, and makes no throttle
\* check and no call; lastOpenAICall changes only in a step in which a call of
\* a request is answered 2xx.
C24_EarlyRejectLeavesThrottle ==
    [][/\ \A r \in Reqs :
             (reqs[r].pc = "idle" /\ RejectedEarly(reqs'[r]))
             => /\ lastOpenAICall' = lastOpenAICall
                /\ lastIssue' = lastIssue /\ prevIssue' = prevIssue
                /\ reqs'[r].calls = 0 /\ reqs'[r].waited = 0
                /\ \A x \in Reqs \ {r} : reqs'[x] = reqs[x]
       /\ lastOpenAICall' # lastOpenAICall
          => \E r \in Reqs :
                 /\ reqs[r].pc = "inflight" /\ reqs'[r].pc = "done"
                 /\ reqs'[r].resp.status = 200]_vars

C24_Witness ==
    \E r1 \in Reqs, r2 \in Reqs :
        /\ r1 # r2
        /\ RejectedEarly(reqs[r1]) /\ reqs[r1].resp = SendText(500, MsgUnexpected)
        /\ Done(r2) /\ reqs[r2].resp.status = 200
        /\ lastOpenAICall > 0 /\ lastOpenAICall < now

\* C25: lastOpenAICall never decreases.  It is 0 until a call has been issued,
\* it is never later than the clock, every step that changes it sets it to the
\* time of that step, and no step makes it or the clock smaller.
C25_StampMonotonic ==
    /\ [](/\ 0 <= lastOpenAICall /\ lastOpenAICall <= now
          /\ lastIssue = Never => lastOpenAICall = 0)
    /\ [][/\ now' >= now
          /\ lastOpenAICall' >= lastOpenAICall
          /\ lastOpenAICall' # lastOpenAICall => lastOpenAICall' = now']_vars

\* a stamp that replaced an earlier stamp
C25_Witness ==
    \E r \in Reqs :
        /\ Done(r) /\ reqs[r].resp.status = 200
        /\ reqs[r].sawLast >= StartTime
        /\ lastOpenAICall > reqs[r].sawLast

\* C26: the rejection checks of POST /chat apply in a fixed order: admission
\* cap, credential, userInput, upstream.  A request over the cap gets the 429 of
\* the limiter whatever its body; within the cap a request gets 500 when no
\* credential is configured, also when its userInput is invalid; with a
\* credential an invalid userInput gets 400; only then is the upstream called.
\* Every arriving request, whatever it is answered with, adds one to the count
\* of its source.
C26_CheckOrder ==
    /\ [](\A r \in Reqs :
             Started(r) =>
                 /\ reqs[r].hit > 60
                    => /\ reqs[r].resp = SendText(429, MsgLimiter)
                       /\ ~reqs[r].handlerRan /\ reqs[r].checks = 0
                 /\ (reqs[r].hit <= 60 /\ ~apiKey)
                    => reqs[r].resp = SendText(500, MsgNoKey) /\ reqs[r].checks = 0
                 /\ (reqs[r].hit <= 60 /\ apiKey /\ BadUserInput(reqs[r].body.userInput))
                    => reqs[r].resp = SendText(400, MsgUserInput) /\ reqs[r].checks = 0
                 /\ (reqs[r].hit <= 60 /\ apiKey /\ ~BadUserInput(reqs[r].body.userInput))
                    => reqs[r].checks >= 1)
    /\ [][\A r \in Reqs :
             (reqs[r].pc = "idle" /\ reqs'[r].pc # "idle")
             => /\ hits'[reqs'[r].src]
                     = IF now < resetTime[reqs'[r].src] THEN hits[reqs'[r].src] + 1 ELSE 1
                /\ reqs'[r].hit = hits'[reqs'[r].src]]_vars

\* the 60th request of a source, with an invalid userInput and no credential
C26_Witness ==
    \E r \in Reqs :
        /\ ~apiKey /\ Done(r)
        /\ reqs[r].body.userInput = Str("")
        /\ reqs[r].hit = 60 /\ hits[reqs[r].src] = 60
        /\ reqs[r].resp = SendText(500, MsgNoKey)

\* the call was answered 2xx with a text, or with no text at all
AnsweredOk(r) ==
    reqs[r].last.kind = "ok" /\ (reqs[r].last.hasText => reqs[r].last.isString)

AllSpace(text) == \A i \in 1..Len(text) : text[i] = "_"
LastOf(seq) == seq[Len(seq)]
ButLast(seq) == SubSeq(seq, 1, Len(seq) - 1)

\* C28: a sendMessage with a non-blank input appends exactly one user message
\* (the trimmed input) and sets loading; when the backend call has settled,
\* with an answer or a failure, it appends exactly one bot message (the reply,
\* the rate-limit notice or the offline fallback) and sets loading back to
\* false.  So after the welcome message user and bot messages alternate, and
\* the list ends with a user message exactly while loading.  A sendMessage with
\* a blank input changes neither messages nor loading and sends no request,
\* and nothing else changes the messages.
C28_OneUserThenOneBot ==
    /\ [](/\ uiLoading <=> uiCall.pc = "awaiting"
          /\ uiLoading <=> Len(uiMessages) % 2 = 0
          /\ \A i \in 2..Len(uiMessages) :
                 uiMessages[i].sender = IF i % 2 = 0 THEN "user" ELSE "bot")
    /\ [][uiPresses' # uiPresses
          => IF AllSpace(uiInput)
             THEN uiMessages' = uiMessages /\ uiLoading' = uiLoading /\ uiCall' = uiCall
             ELSE /\ Len(uiMessages') = Len(uiMessages) + 1
                  /\ ButLast(uiMessages') = uiMessages
                  /\ LastOf(uiMessages').sender = "user"
                  /\ LastOf(uiMessages').text = Trim(uiInput)
                  /\ uiLoading' /\ uiCall'.pc = "awaiting"]_vars
    /\ [][(uiCall.pc = "awaiting" /\ uiCall'.pc # "awaiting")
          => /\ Len(uiMessages') = Len(uiMessages) + 1
             /\ ButLast(uiMessages') = uiMessages
             /\ LastOf(uiMessages').sender = "bot"
             /\ LastOf(uiMessages').text
                  \in {<<"answer">>, <<>>, RateLimitNotice,
                       generateFallbackResponse(uiCall.userInput, uiCall.mode, uiCall.tone)}
             /\ ~uiLoading']_vars
    /\ [][(uiPresses' = uiPresses /\ uiCall'.pc = uiCall.pc)
          => uiMessages' = uiMessages /\ uiLoading' = uiLoading]_vars

\* a failed exchange, then a successful one
C28_Witness ==
    /\ Len(uiMessages) = 5 /\ ~uiLoading
    /\ uiMessages[2].sender = "user" /\ uiMessages[3].summary = "Offline fallback"
    /\ uiMessages[4].sender = "user" /\ uiMessages[5].text = <<"answer">>
    /\ uiPresses = 2

\* the messages of the screen before the user message of the latest call
Before ==
    SubSeq(uiMessages, 1, Len(uiMessages) - (IF uiCall.pc = "awaiting" THEN 1 ELSE 2))

\* C29: the history sent with a request holds at most 6 turns: the most recent
\* messages that were on the screen before the new user message, in their
\* order, a user message as role user and any other as role assistant, each
\* with its text; the new message is not one of them, it is sent as userInput.
C29_HistoryIsRecentTurns ==
    uiCall.pc # "idle" =>
        LET n == Len(Before)
            k == IF n < 6 THEN n ELSE 6
        IN /\ Len(uiCall.history) = k
           /\ \A i \in 1..k :
                  /\ uiCall.history[i].content = Before[n - k + i].text
                  /\ uiCall.history[i].role
                       = IF Before[n - k + i].sender = "user" THEN "user" ELSE "assistant"
           /\ uiMessages[n + 1].sender = "user"
           /\ uiMessages[n + 1].text = uiCall.userInput

\* the fourth request: seven messages before it, the welcome message is cut
C29_Witness ==
    /\ uiCall.pc = "awaiting"
    /\ Len(uiMessages) = 8
    /\ Len(uiCall.history) = 6
    /\ uiCall.history[1].role = "user" /\ uiCall.history[6].role = "assistant"
    /\ uiCall.history[6].content = uiMessages[7].text

\* the gateway's failure after its retries were all answered 429
GatewayRateLimit(o) ==
    o.kind = "fail" /\ o.status = 429 /\ Len(o.words) > 0 /\ o.words[1] = "RATE_LIMIT:"

\* C30: when the backend call has failed, the bot message is the rate-limit
\* notice if the gateway answered 429 with a body starting with RATE_LIMIT,
\* and for every other failure it is the offline fallback of the mode the
\* message was sent in.
C30_NoticeOnlyForRateLimit ==
    (uiCall.pc = "settled" /\ uiCall.last.kind # "ok")
    => IF GatewayRateLimit(uiCall.last)
       THEN /\ uiMessages[Len(uiMessages)].text = RateLimitNotice
            /\ uiMessages[Len(uiMessages)].summary = "Rate limit"
       ELSE /\ uiMessages[Len(uiMessages)].text
                 = generateFallbackResponse(uiCall.userInput, uiCall.mode, uiCall.tone)
            /\ uiMessages[Len(uiMessages)].summary = "Offline fallback"

====
